---- MODULE Spec2Model ----
(***************************************************************************)
(* A model of the "20 Questions" dialogue machine of twenty-questions-game *)
(* (main.py, src/utils/game_utils.py, src/twenty_questions_game.py,        *)
(* streamlit_app.py, src/streamlit_utils/ui_components.py).                *)
(*                                                                         *)
(* Texts are sequences of one-character strings, so that strip(), lower(), *)
(* startswith() and the `in` substring test are computed on characters the *)
(* way Python computes them.  A chat message is a record [type, content]   *)
(* with type "ai" (AIMessage) or "human" (HumanMessage).                   *)
(***************************************************************************)
EXTENDS Integers, Sequences, FiniteSets, TLC

(***************************************************************************)
(* Bounds of the model.                                                    *)
(*                                                                         *)
(* MaxQuestions stands for the question limit, which the source writes as  *)
(* the literal 20 (game_utils.py:32 and :125, streamlit_app.py:107).  The  *)
(* model keeps the comparisons of the source and makes the limit small     *)
(* enough for every round to be explored up to and beyond the limit.       *)
(***************************************************************************)
MaxQuestions == 3

\* largest num_games handed to bulk_test_game
MaxGames == 2

\* chat inputs a Streamlit session takes beyond the question limit
MaxExtraTurns == 1

(***************************************************************************)
(* Text constants                                                          *)
(***************************************************************************)
init_message ==
    <<"L","e","t","'","s"," ","p","l","a","y"," ","2","0"," ","Q","u","e",
      "s","t","i","o","n","s","!"," ","T","h","i","n","k"," ","o","f"," ",
      "a","n"," ","o","b","j","e","c","t",","," ","a","n","d"," ","I"," ",
      "w","i","l","l"," ","t","r","y"," ","t","o"," ","g","u","e","s","s",
      " ","i","t","."," ","Y","o","u"," ","c","a","n"," ","o","n","l","y",
      " ","a","n","s","w","e","r"," ","'","Y","e","s","'"," ","o","r"," ",
      "'","N","o","'",".">>

hooray ==
    <<"h","o","o","r","a","y">>

Yes ==
    <<"Y","e","s">>

No ==
    <<"N","o">>

yes ==
    <<"y","e","s">>

\* Python's None, where a text is expected (no text has a 4-character element)
None ==
    <<"None">>

(***************************************************************************)
(* Inputs: what the two language models and the human may produce.         *)
(***************************************************************************)
RHoorayBang ==
    <<"h","o","o","r","a","y","!">>

RHoorayIWin ==
    <<" "," ","H","o","o","r","a","y",","," ","I"," ","w","i","n">>

RHOORAY ==
    <<"H","O","O","R","A","Y">>

RHooraygun ==
    <<"I"," ","t","h","i","n","k"," ","i","t","'","s"," ","a"," ","h","o",
      "o","r","a","y","g","u","n">>

RIsItAnApple ==
    <<"I","s"," ","i","t"," ","a","n"," ","A","p","p","l","e","?">>

apple ==
    <<"a","p","p","l","e">>

car ==
    <<"c","a","r">>

\* completions of the guesser's model
Responses ==
    {RHoorayBang, RHoorayIWin, RHOORAY, RHooraygun, RIsItAnApple}

\* completions of the responder's model, before ai_user_response normalises them
RawAnswers ==
    { yes,
      <<" ","Y","E","S","\n">>,
      <<"Y","e","s",".">>,
      <<"y","e","s"," ","i","t"," ","i","s">>,
      <<"N","O">>,
      <<>> }

\* what a human types
UserInputs ==
    {Yes, No}

\* the concept lists handed to bulk_test_game
ConceptLists ==
    {<<>>, <<apple, car>>}

\* the outcome of one call of a language model: a text, or a raised error
Completed(text) ==
    [ok |-> TRUE, text |-> text]

Failed ==
    [ok |-> FALSE, text |-> None]

Completions ==
    {Completed(r) : r \in Responses} \cup {Failed}

Predictions ==
    {Completed(a) : a \in RawAnswers} \cup {Failed}

(***************************************************************************)
(* Python's str methods, on sequences of characters                        *)
(***************************************************************************)
UpperCase ==
    <<"A","B","C","D","E","F","G","H","I","J","K","L","M",
      "N","O","P","Q","R","S","T","U","V","W","X","Y","Z">>

LowerCase ==
    <<"a","b","c","d","e","f","g","h","i","j","k","l","m",
      "n","o","p","q","r","s","t","u","v","w","x","y","z">>

Whitespace ==
    {" ", "\t", "\n", "\r"}

lower_char(c) ==
    IF \E i \in 1..26 : UpperCase[i] = c
    THEN LowerCase[CHOOSE i \in 1..26 : UpperCase[i] = c]
    ELSE c

\* str.lower()
lower(s) ==
    [i \in 1..Len(s) |-> lower_char(s[i])]

\* str.strip()
strip(s) ==
    LET keep == {i \in 1..Len(s) : s[i] \notin Whitespace}
    IN  IF keep = {} THEN <<>>
        ELSE SubSeq(s, CHOOSE i \in keep : \A j \in keep : i <= j,
                       CHOOSE i \in keep : \A j \in keep : j <= i)

\* s.startswith(prefix)
startswith(s, prefix) ==
    /\ Len(prefix) <= Len(s)
    /\ SubSeq(s, 1, Len(prefix)) = prefix

\* sub in s
contains(sub, s) ==
    \E i \in 0..(Len(s) - Len(sub)) : SubSeq(s, i + 1, i + Len(sub)) = sub

(***************************************************************************)
(* Chat memory (langchain's ChatMessageHistory / ConversationBufferMemory, *)
(* as the source uses it)                                                  *)
(***************************************************************************)
AIMessage(content) ==
    [type |-> "ai", content |-> content]

HumanMessage(content) ==
    [type |-> "human", content |-> content]

add_ai_message(messages, content) ==
    Append(messages, AIMessage(content))

add_user_message(messages, content) ==
    Append(messages, HumanMessage(content))

\* ai_messages without its isinstance filter
all_messages(messages) ==
    messages

\* [msg for msg in messages if isinstance(msg, AIMessage)]
ai_messages(messages) ==
    SelectSeq(messages, LAMBDA msg : msg.type = "ai")

\* what the chain's memory records once a completion has returned:
\* the input as a human message, then the output as an ai message
save_context(messages, input, output) ==
    add_ai_message(add_user_message(messages, input), output)

(***************************************************************************)
(* TwentyQuestionsGame                                                     *)
(***************************************************************************)
chat_template ==
    "system rules of 20 Questions; chat_history; {input}"

NoChain ==
    [llm |-> "None", prompt |-> "None"]

setup_llm_chain(self) ==
    [self EXCEPT !.llm_chain = [llm |-> self.llm, prompt |-> chat_template]]

\* the constructor with the opening message added to the memory it is given
TwentyQuestionsGameSeeded(llm, memory) ==
    setup_llm_chain([llm |-> llm,
                     memory |-> add_ai_message(memory, init_message),
                     llm_chain |-> NoChain])

TwentyQuestionsGame(llm, memory) ==
    setup_llm_chain([llm |-> llm, memory |-> memory, llm_chain |-> NoChain])

\* run() with the failure of the completion caught and an empty response
\* returned
run_swallows_failure(self, user_input, completion) ==
    IF completion.ok
    THEN [game     |-> [self EXCEPT !.memory =
                            save_context(self.memory, user_input, completion.text)],
          raised   |-> "None",
          response |-> completion.text]
    ELSE [game |-> self, raised |-> "None", response |-> <<>>]

\* the result of run(): the game afterwards, the error raised or "None",
\* and the response
run(self, user_input, completion) ==
    IF completion.ok
    THEN [game     |-> [self EXCEPT !.memory =
                            save_context(self.memory, user_input, completion.text)],
          raised   |-> "None",
          response |-> completion.text]
    ELSE [game |-> self, raised |-> "CompletionError", response |-> None]

\* get_latest_question with ai_messages[0] for ai_messages[-1]
get_first_question(self) ==
    LET ai == ai_messages(self.memory)
    IN  IF Len(ai) > 0 THEN ai[1].content ELSE None

get_latest_question(self) ==
    LET ai == ai_messages(self.memory)
    IN  IF Len(ai) > 0 THEN ai[Len(ai)].content ELSE None

\* reset_game with the first message of the history kept
reset_game_keeps_opening(self) ==
    setup_llm_chain([self EXCEPT !.memory = IF @ = <<>> THEN <<>> ELSE <<@[1]>>])

\* reset_game without self.memory.clear()
reset_game_keeps_history(self) ==
    setup_llm_chain(self)

\* reset_game without the chain it sets up again
reset_game_drops_chain(self) ==
    [self EXCEPT !.memory = <<>>, !.llm_chain = NoChain]

reset_game(self) ==
    setup_llm_chain([self EXCEPT !.memory = <<>>])

(***************************************************************************)
(* game_utils.process_game_turn and ai_user_response                       *)
(***************************************************************************)
\* the token test without strip()
token_match_unstripped(response) ==
    startswith(lower(response), hooray)

\* the token test with `in` for startswith
token_match_anywhere(response) ==
    contains(hooray, lower(strip(response)))

\* the token test with == for startswith
token_match_whole(response) ==
    lower(strip(response)) = hooray

\* response.strip().lower().startswith("hooray")
token_match(response) ==
    startswith(lower(strip(response)), hooray)

\* the substring test without the two lower()
substring_match_exact(concept, response) ==
    contains(concept, response)

\* concept.lower() in response.lower()
substring_match(concept, response) ==
    contains(lower(concept), lower(response))

\* the count without the opening message taken off
count_questions_with_opening(messages) ==
    Len(ai_messages(messages))

\* question_count = len(ai_messages) - 1
count_questions(messages) ==
    Len(ai_messages(messages)) - 1

\* the result of process_game_turn: the game afterwards, the error raised
\* or "None", and the returned triple
process_game_turn(game_, user_input_, concept_, completion) ==
    LET added == [game_ EXCEPT !.memory = add_user_message(game_.memory, user_input_)]
        ran   == run(added, user_input_, completion)
        fail(kind) == [game |-> ran.game, raised |-> kind, response |-> None,
                       game_over |-> FALSE, question_count |-> 0]
    IN  IF ran.raised # "None" THEN fail(ran.raised)
        ELSE IF ~token_match(ran.response) /\ concept_ = None
        THEN fail("AttributeError")
        ELSE [game     |-> ran.game,
              raised   |-> "None",
              response |-> ran.response,
              game_over |-> \/ token_match(ran.response)
                            \/ substring_match(concept_, ran.response),
              question_count |-> count_questions(ran.game.memory)]

\* the loop as `while True`
loop_continues_always(question_count_) ==
    TRUE

\* the loop test with <= for <
loop_continues_once_more(question_count_) ==
    question_count_ <= MaxQuestions

\* simulate_game: while question_count < 20
loop_continues(question_count_) ==
    question_count_ < MaxQuestions

\* ai_user_response with startswith("yes") for == "yes"
ai_user_response_by_prefix(prediction) ==
    IF prediction.ok
    THEN [raised |-> "None",
          answer |-> IF startswith(lower(strip(prediction.text)), yes)
                     THEN Yes ELSE No]
    ELSE [raised |-> "CompletionError", answer |-> None]

\* the result of ai_user_response: the error raised or "None", and the answer
ai_user_response(prediction) ==
    IF prediction.ok
    THEN [raised |-> "None",
          answer |-> IF lower(strip(prediction.text)) = yes THEN Yes ELSE No]
    ELSE [raised |-> "CompletionError", answer |-> None]

(***************************************************************************)
(* Streamlit: the session state and one run of the script                  *)
(***************************************************************************)
\* ui_components.initialize_question_count
initialize_question_count(state) ==
    IF "question_count" \in DOMAIN state
    THEN state
    ELSE state @@ ("question_count" :> 1)

\* restart with the counter set to 0
restart_from_zero(state) ==
    [k \in DOMAIN state \cup {"langchain_messages", "question_count"} |->
        IF k = "langchain_messages" THEN <<>>
        ELSE IF k = "question_count" THEN 0
        ELSE state[k]]

\* ui_components.restart
restart(state) ==
    [k \in DOMAIN state \cup {"langchain_messages", "question_count"} |->
        IF k = "langchain_messages" THEN <<>>
        ELSE IF k = "question_count" THEN 1
        ELSE state[k]]

\* StreamlitChatApp.setup_memory: the history under the key
\* "langchain_messages" is created empty when absent, and seeded when empty
setup_memory(state) ==
    LET made == IF "langchain_messages" \in DOMAIN state
                THEN state
                ELSE state @@ ("langchain_messages" :> <<>>)
    IN  IF Len(made["langchain_messages"]) = 0
        THEN [made EXCEPT !["langchain_messages"] = add_ai_message(@, init_message)]
        ELSE made

\* StreamlitChatApp.__init__: the part of it that touches the session state
StreamlitChatApp(state) ==
    setup_memory(initialize_question_count(state))

\* StreamlitChatApp.setup_game: the game over the session's history
setup_game(state) ==
    TwentyQuestionsGame("llm", state["langchain_messages"])

\* what a script run leaves on the page: the announcement, the number in it,
\* and whether the "Restart Game" button is there
Page(shown, count, button) ==
    [shown |-> shown, count |-> count, button |-> button]

\* StreamlitChatApp.handle_game_logic: the session state and the page after it
handle_game_logic(state, response_) ==
    IF startswith(lower(strip(response_)), hooray)
    THEN [state |-> state,
          page  |-> Page("win", state["question_count"], TRUE)]
    ELSE LET counted == [state EXCEPT !["question_count"] = @ + 1]
         IN  IF counted["question_count"] > MaxQuestions
             THEN [state |-> counted,
                   page  |-> Page("lost", counted["question_count"], TRUE)]
             ELSE [state |-> counted,
                   page  |-> Page("none", counted["question_count"], FALSE)]

\* StreamlitChatApp.run with a chat input: the session state and the page after it
app_run(state, user_input_, completion) ==
    LET ran == run(setup_game(state), user_input_, completion)
    IN  IF ran.raised # "None"
        THEN [state |-> state,
              page  |-> Page("error", state["question_count"], FALSE)]
        ELSE handle_game_logic(
                 [state EXCEPT !["langchain_messages"] = ran.game.memory],
                 ran.response)

(***************************************************************************)
(* State                                                                   *)
(***************************************************************************)
VARIABLES
    pc,              \* where the running program stands
    game,            \* the TwentyQuestionsGame of main.py
    error,           \* the exception that ended the program, or "None"
    printed,         \* what game_loop announced: "none", "win" or "lost"
    concepts,        \* bulk_test_game: its arguments, results and return value
    num_games,
    results,
    summary,
    concept,         \* locals of game_loop and simulate_game
    user_input,
    response,
    game_over,
    question_count,
    latest_question,
    turns,           \* calls of process_game_turn (in the Streamlit session:
                     \* chat inputs) since the opening message was seeded
    session_state,   \* st.session_state of the Streamlit session
    page             \* what the last run of the Streamlit script rendered

vars ==
    <<pc, game, error, printed, concepts, num_games, results, summary, concept,
      user_input, response, game_over, question_count, latest_question, turns,
      session_state, page>>

cliVars ==
    <<game, error, printed, concepts, num_games, results, summary, concept,
      user_input, response, game_over, question_count, latest_question>>

bulkVars ==
    <<concepts, num_games, results, summary>>

stVars ==
    <<session_state, page>>

NoSummary ==
    [returned |-> FALSE, detailed_results |-> <<>>, success_count |-> 0,
     average_questions |-> [num |-> 0, den |-> 1],
     performance_score |-> [num |-> 0, den |-> 1]]

\* main.py: the game initialize_game builds; nothing has been started yet
Init ==
    /\ pc = "start"
    /\ game = TwentyQuestionsGame("llm", <<>>)
    /\ error = "None"
    /\ printed = "none"
    /\ concepts = <<>>
    /\ num_games = 0
    /\ results = <<>>
    /\ summary = NoSummary
    /\ concept = None
    /\ user_input = None
    /\ response = None
    /\ game_over = FALSE
    /\ question_count = 0
    /\ latest_question = None
    /\ turns = 0
    /\ session_state = <<>>
    /\ page = Page("none", 0, FALSE)

(***************************************************************************)
(* main.py play: game_loop                                                 *)
(***************************************************************************)
\* game_loop up to its while loop
GameLoopStart ==
    /\ pc = "start"
    /\ game' = [game EXCEPT !.memory = add_ai_message(@, init_message)]
    /\ game_over' = FALSE
    /\ turns' = 0
    /\ pc' = "game_loop"
    /\ UNCHANGED <<error, printed, bulkVars, concept, user_input, response,
                   question_count, latest_question, stVars>>

\* one pass of the while loop of game_loop
GameLoopTurn ==
    /\ pc = "game_loop"
    /\ ~game_over
    /\ \E input \in UserInputs, completion \in Completions :
        LET r == process_game_turn(game, input, None, completion)
        IN  /\ user_input' = input
            /\ game' = r.game
            /\ turns' = turns + 1
            /\ IF r.raised # "None"
               THEN /\ error' = r.raised
                    /\ pc' = "raised"
                    /\ UNCHANGED <<response, game_over, question_count, printed>>
               ELSE /\ response' = r.response
                    /\ game_over' = r.game_over
                    /\ question_count' = r.question_count
                    /\ printed' = IF r.game_over THEN "win"
                                  ELSE IF r.question_count >= MaxQuestions
                                       THEN "lost" ELSE "none"
                    /\ pc' = IF r.game_over \/ r.question_count >= MaxQuestions
                             THEN "done" ELSE "game_loop"
                    /\ UNCHANGED error
    /\ UNCHANGED <<bulkVars, concept, latest_question, stVars>>

(***************************************************************************)
(* main.py bulk_test: bulk_test_game and simulate_game                     *)
(***************************************************************************)
\* the call of bulk_test_game, up to its for loop
BulkTestStart ==
    /\ pc = "start"
    /\ \E cs \in ConceptLists, n \in -1..MaxGames :
        /\ concepts' = cs
        /\ num_games' = n
    /\ results' = <<>>
    /\ pc' = "bulk_test_game"
    /\ UNCHANGED <<game, error, printed, summary, concept, user_input, response,
                   game_over, question_count, latest_question, turns, stVars>>

\* a choice that answers None for an empty sequence
random_choice_or_none(seq) ==
    [raised |-> "None",
     values |-> IF Len(seq) = 0 THEN {None} ELSE {seq[k] : k \in 1..Len(seq)}]

\* random.choice(seq): the error raised or "None", and the values it may return
random_choice(seq) ==
    IF Len(seq) = 0
    THEN [raised |-> "IndexError", values |-> {}]
    ELSE [raised |-> "None", values |-> {seq[k] : k \in 1..Len(seq)}]

\* SimulateStart with the first input set in the first round only: a later
\* round opens with the last answer of the round before
SimulateStartKeepsInput ==
    /\ pc = "bulk_test_game"
    /\ Len(results) < num_games
    /\ IF random_choice(concepts).raised # "None"
       THEN /\ error' = random_choice(concepts).raised
            /\ pc' = "raised"
            /\ UNCHANGED <<game, concept, question_count, user_input, turns,
                           response, game_over, latest_question>>
       ELSE /\ \E c \in random_choice(concepts).values : concept' = c
            /\ game' = [reset_game(game) EXCEPT
                            !.memory = add_ai_message(@, init_message)]
            /\ question_count' = 0
            /\ user_input' = IF user_input = None THEN Yes ELSE user_input
            /\ turns' = 0
            /\ response' = None
            /\ game_over' = FALSE
            /\ latest_question' = None
            /\ pc' = "simulate_turn"
            /\ UNCHANGED error
    /\ UNCHANGED <<printed, bulkVars, stVars>>

\* one more pass of the for loop: random.choice, then simulate_game up to
\* its while loop
SimulateStart ==
    /\ pc = "bulk_test_game"
    /\ Len(results) < num_games
    /\ IF random_choice(concepts).raised # "None"
       THEN /\ error' = random_choice(concepts).raised
            /\ pc' = "raised"
            /\ UNCHANGED <<game, concept, question_count, user_input, turns,
                           response, game_over, latest_question>>
       ELSE /\ \E c \in random_choice(concepts).values : concept' = c
            /\ game' = [reset_game(game) EXCEPT
                            !.memory = add_ai_message(@, init_message)]
            /\ question_count' = 0
            /\ user_input' = Yes
            /\ turns' = 0
            \* a new call: the other locals are not bound yet
            /\ response' = None
            /\ game_over' = FALSE
            /\ latest_question' = None
            /\ pc' = "simulate_turn"
            /\ UNCHANGED error
    /\ UNCHANGED <<printed, bulkVars, stVars>>

\* the while loop of simulate_game, from its test to the return of Success
SimulateTurn ==
    /\ pc = "simulate_turn"
    /\ loop_continues(question_count)
    /\ \E completion \in Completions :
        LET r == process_game_turn(game, user_input, concept, completion)
        IN  /\ game' = r.game
            /\ turns' = turns + 1
            /\ IF r.raised # "None"
               THEN /\ error' = r.raised
                    /\ pc' = "raised"
                    /\ UNCHANGED <<response, game_over, question_count, results>>
               ELSE /\ response' = r.response
                    /\ game_over' = r.game_over
                    /\ question_count' = r.question_count
                    /\ IF r.game_over
                       THEN /\ results' = Append(results,
                                    <<concept, "Success", r.question_count>>)
                            /\ pc' = "bulk_test_game"
                       ELSE /\ pc' = "simulate_answer"
                            /\ UNCHANGED results
                    /\ UNCHANGED error
    /\ UNCHANGED <<printed, concepts, num_games, summary, concept, user_input,
                   latest_question, stVars>>

\* SimulateAnswer with the responder on the memory of the game: the question
\* put to it is recorded there as a human turn
SimulateAnswerOnGameMemory ==
    /\ pc = "simulate_answer"
    /\ latest_question' = get_latest_question(game)
    /\ game' = [game EXCEPT !.memory = add_user_message(@, get_latest_question(game))]
    /\ \E prediction \in Predictions :
        LET a == ai_user_response(prediction)
        IN  IF a.raised # "None"
            THEN /\ error' = a.raised
                 /\ pc' = "raised"
                 /\ UNCHANGED user_input
            ELSE /\ user_input' = a.answer
                 /\ pc' = "simulate_turn"
                 /\ UNCHANGED error
    /\ UNCHANGED <<printed, bulkVars, concept, response, game_over,
                   question_count, turns, stVars>>

\* the rest of the loop body: the next input, from the responder's model
SimulateAnswer ==
    /\ pc = "simulate_answer"
    /\ latest_question' = get_latest_question(game)
    /\ \E prediction \in Predictions :
        LET a == ai_user_response(prediction)
        IN  IF a.raised # "None"
            THEN /\ error' = a.raised
                 /\ pc' = "raised"
                 /\ UNCHANGED user_input
            ELSE /\ user_input' = a.answer
                 /\ pc' = "simulate_turn"
                 /\ UNCHANGED error
    /\ UNCHANGED <<game, printed, bulkVars, concept, response, game_over,
                   question_count, turns, stVars>>

\* SimulateFailure with the round that failed left out of the results
SimulateFailureSkipsRound ==
    /\ pc = "simulate_turn"
    /\ ~loop_continues(question_count)
    /\ pc' = "bulk_test_game"
    /\ UNCHANGED <<game, error, printed, concepts, num_games, results, summary,
                   concept, user_input, response, game_over, question_count,
                   latest_question, turns, stVars>>

\* the while test fails: simulate_game returns Failure
SimulateFailure ==
    /\ pc = "simulate_turn"
    /\ ~loop_continues(question_count)
    /\ results' = Append(results, <<concept, "Failure", question_count>>)
    /\ pc' = "bulk_test_game"
    /\ UNCHANGED <<game, error, printed, concepts, num_games, summary, concept,
                   user_input, response, game_over, question_count,
                   latest_question, turns, stVars>>

\* the sum with the rounds that failed left out
RECURSIVE SumSuccessQuestions(_)
SumSuccessQuestions(rs) ==
    IF rs = <<>> THEN 0
    ELSE (IF rs[1][2] = "Success" THEN rs[1][3] ELSE 0)
             + SumSuccessQuestions(Tail(rs))

\* sum(question_count for _, _, question_count in results)
RECURSIVE SumQuestions(_)
SumQuestions(rs) ==
    IF rs = <<>> THEN 0 ELSE rs[1][3] + SumQuestions(Tail(rs))

\* the for loop is over: the metrics and the return value of bulk_test_game
BulkTestSummary ==
    /\ pc = "bulk_test_game"
    /\ ~(Len(results) < num_games)
    /\ IF num_games = 0
       THEN /\ error' = "ZeroDivisionError"
            /\ pc' = "raised"
            /\ UNCHANGED summary
       ELSE /\ LET success_count ==
                       Len(SelectSeq(results, LAMBDA r : r[2] = "Success"))
               IN  summary' =
                     [returned |-> TRUE,
                      detailed_results |-> results,
                      success_count |-> success_count,
                      average_questions |->
                          [num |-> SumQuestions(results), den |-> num_games],
                      performance_score |->
                          [num |-> success_count, den |-> num_games]]
            /\ pc' = "done"
            /\ UNCHANGED error
    /\ UNCHANGED <<game, printed, concepts, num_games, results, concept,
                   user_input, response, game_over, question_count,
                   latest_question, turns, stVars>>

(***************************************************************************)
(* streamlit_app.py: each action is one run of the script                  *)
(***************************************************************************)
\* what the user types into st.chat_input
ChatInputs ==
    {Yes}

\* a run without chat input: the first visit, or any rerun
StreamlitVisit ==
    /\ pc \in {"start", "streamlit"}
    /\ session_state' = StreamlitChatApp(session_state)
    /\ page' = Page("none", 0, FALSE)
    /\ pc' = "streamlit"
    /\ UNCHANGED <<cliVars, turns>>

\* a run with chat input
StreamlitChat ==
    /\ pc = "streamlit"
    /\ turns < MaxQuestions + MaxExtraTurns
    /\ \E input \in ChatInputs, completion \in Completions :
        LET r == app_run(StreamlitChatApp(session_state), input, completion)
        IN  /\ session_state' = r.state
            /\ page' = r.page
    /\ turns' = turns + 1
    /\ UNCHANGED <<pc, cliVars>>

\* a click on "Restart Game": the callback, then a run without chat input
StreamlitRestart ==
    /\ pc = "streamlit"
    /\ page.button
    /\ session_state' = StreamlitChatApp(restart(session_state))
    /\ page' = Page("none", 0, FALSE)
    /\ turns' = 0
    /\ UNCHANGED <<pc, cliVars>>

Next ==
    \/ GameLoopStart
    \/ GameLoopTurn
    \/ BulkTestStart
    \/ SimulateStart
    \/ SimulateTurn
    \/ SimulateAnswer
    \/ SimulateFailure
    \/ BulkTestSummary
    \/ StreamlitVisit
    \/ StreamlitChat
    \/ StreamlitRestart

Spec ==
    Init /\ [][Next]_vars

\* the transcripts a session is created on: an empty one, and the history of
\* an earlier exchange read back from a store
SuppliedTranscripts ==
    {<<>>, save_context(<<>>, Yes, RIsItAnApple)}

\* the game built on a supplied transcript; nothing has been started yet
InitSupplied ==
    /\ pc = "start"
    /\ game \in {TwentyQuestionsGame("llm", t) : t \in SuppliedTranscripts}
    /\ error = "None"
    /\ printed = "none"
    /\ concepts = <<>>
    /\ num_games = 0
    /\ results = <<>>
    /\ summary = NoSummary
    /\ concept = None
    /\ user_input = None
    /\ response = None
    /\ game_over = FALSE
    /\ question_count = 0
    /\ latest_question = None
    /\ turns = 0
    /\ session_state = <<>>
    /\ page = Page("none", 0, FALSE)

SpecSupplied ==
    InitSupplied /\ [][Next]_vars

(***************************************************************************)
(* Properties                                                              *)
(***************************************************************************)
\* the transcript of the session in use
Transcript ==
    IF pc = "streamlit" THEN session_state["langchain_messages"] ELSE game.memory

\* the command-line program stands where no call has raised
Running ==
    /\ pc \in {"game_loop", "simulate_turn", "simulate_answer", "bulk_test_game", "done"}
    /\ error = "None"

\* C1: the question_count that the N-th call of process_game_turn since the
\* opening message returns is N, whatever the inputs and responses were
C1_QuestionCountIsTurns ==
    Running => question_count = turns

C1_Witness ==
    /\ pc = "simulate_answer"
    /\ turns = MaxQuestions
    /\ ~game_over

\* C2: a call of process_game_turn that returns extends the transcript by
\* exactly two turns: the input as a human turn, then the response as an ai turn
C2_AppendsTwoTurns ==
    [][(pc \in {"game_loop", "simulate_turn"} /\ turns' = turns + 1 /\ error' = "None")
        => game'.memory = game.memory \o
               <<HumanMessage(user_input'), AIMessage(response')>>]_vars

AtReset ==
    /\ pc = "bulk_test_game"
    /\ Len(results) < num_games
    /\ Len(concepts) > 0

\* C4 as stated: reset_game leaves a transcript of length 1 and a question
\* count of 0
C4_ResetLeavesOpening ==
    AtReset =>
        /\ Len(reset_game(game).memory) = 1
        /\ count_questions(reset_game(game).memory) = 0

\* C4 as amended: reset_game leaves the transcript empty, the model and the
\* chain's prompt as they were, and a second reset_game changes nothing; the
\* opening message that simulate_game then adds makes the length 1 and the
\* question count 0
C4_ResetClears ==
    AtReset =>
        LET after  == reset_game(game)
            seeded == add_ai_message(after.memory, init_message)
        IN  /\ after.memory = <<>>
            /\ after.llm = game.llm
            /\ after.llm_chain = game.llm_chain
            /\ reset_game(after) = after
            /\ Len(seeded) = 1
            /\ count_questions(seeded) = 0

C4_Witness ==
    /\ AtReset
    /\ Len(game.memory) > 1
    /\ turns > 1

\* C5: the question count the program holds is the number of ai turns of the
\* transcript minus 1, in the command-line program and in the Streamlit session
C5_CountFollowsTranscript ==
    /\ Running => question_count = count_questions(game.memory)
    /\ pc = "streamlit" =>
           session_state["question_count"] = count_questions(Transcript)

\* simulate_game has just returned its result, the last of results
RoundReturned ==
    /\ pc = "bulk_test_game"
    /\ Len(results) > 0

\* every answer after the fixed first one was "No"
OnlyNoAnswered ==
    \A i \in 4..Len(game.memory) :
        game.memory[i].type = "human" => game.memory[i].content = No

\* C6: simulate_game returns Failure after exactly MaxQuestions calls of
\* process_game_turn, none of them terminal: not after fewer, and no call
\* follows the MaxQuestions-th
C6_FailureExactlyAtLimit ==
    /\ \A i \in 1..Len(results) :
           results[i][2] = "Failure" => results[i][3] = MaxQuestions
    /\ pc # "streamlit" => turns <= MaxQuestions
    /\ (pc = "simulate_turn" /\ turns < MaxQuestions) => loop_continues(question_count)
    /\ (pc = "simulate_turn" /\ turns = MaxQuestions) => ~loop_continues(question_count)
    /\ (RoundReturned /\ results[Len(results)][2] = "Failure") => turns = MaxQuestions

C6_Witness ==
    /\ RoundReturned
    /\ results[Len(results)][2] = "Failure"
    /\ turns = MaxQuestions
    /\ OnlyNoAnswered

\* text, trimmed on the left and lower-cased, begins with "hooray"
HasHoorayPrefix(text) ==
    \E k \in 0..Len(text) :
        /\ \A i \in 1..k : text[i] \in Whitespace
        /\ k + Len(hooray) <= Len(text)
        /\ \A j \in 1..Len(hooray) : lower_char(text[k + j]) = hooray[j]

\* word occurs in text, letter case set aside
OccursIn(word, text) ==
    \E k \in 0..(Len(text) - Len(word)) :
        \A j \in 1..Len(word) : lower_char(text[k + j]) = lower_char(word[j])

\* C7: simulate_game returns Success exactly when one of its first
\* MaxQuestions calls of process_game_turn was terminal; that call is its last
\* one, and the questions used are the number of that call
C7_SuccessAtFirstTerminal ==
    /\ \A i \in 1..Len(results) :
           results[i][2] = "Success" => results[i][3] \in 1..MaxQuestions
    /\ pc = "simulate_answer" => ~game_over
    /\ RoundReturned =>
           LET last == results[Len(results)]
               ai   == ai_messages(game.memory)
           IN  /\ last[3] = turns
               /\ last[3] = Len(ai) - 1
               /\ last[2] = "Success" <=>
                      \/ HasHoorayPrefix(ai[Len(ai)].content)
                      \/ OccursIn(last[1], ai[Len(ai)].content)
               /\ \A k \in 2..(Len(ai) - 1) :
                      /\ ~HasHoorayPrefix(ai[k].content)
                      /\ ~OccursIn(last[1], ai[k].content)

C7_Witness ==
    /\ RoundReturned
    /\ results[Len(results)][2] = "Success"
    /\ results[Len(results)][3] = MaxQuestions

\* the text of the last ai turn of the transcript
LastResponse ==
    Transcript[Len(Transcript)].content

\* C8: the token test holds of a response exactly when the response, trimmed
\* and lower-cased, begins with "hooray"; such a response ends the game
C8_TokenRule ==
    /\ (Running /\ response # None) =>
           /\ token_match(response) <=> HasHoorayPrefix(response)
           /\ HasHoorayPrefix(response) => game_over
           /\ concept = None => (game_over <=> HasHoorayPrefix(response))
    /\ error = "AttributeError" => ~HasHoorayPrefix(LastResponse)
    /\ (pc = "streamlit" /\ page.shown = "win") => HasHoorayPrefix(LastResponse)
    /\ (pc = "streamlit" /\ page.shown \in {"none", "lost"} /\ page.count > 0) =>
           ~HasHoorayPrefix(LastResponse)

C8_Witness ==
    /\ Running
    /\ response = RHoorayIWin
    /\ game_over

\* C9: with a concept, process_game_turn reports the game over exactly when
\* the response begins with the token or the concept occurs in the response,
\* letter case set aside
C9_ConceptRule ==
    (Running /\ response # None /\ concept # None) =>
        (game_over <=> (HasHoorayPrefix(response) \/ OccursIn(concept, response)))

C9_Witness ==
    /\ Running
    /\ concept = apple
    /\ response = RIsItAnApple
    /\ game_over

\* the text of the last ai turn of messages, None when there is none
LastGuesserText(messages) ==
    LET at == {i \in 1..Len(messages) : messages[i].type = "ai"}
    IN  IF at = {} THEN None
        ELSE messages[CHOOSE i \in at : \A j \in at : j <= i].content

\* C10: get_latest_question returns None when the transcript has no ai turn
\* and else the text of its last ai turn: the opening message before any turn,
\* the response after a call of process_game_turn has returned it
C10_LatestQuestion ==
    /\ get_latest_question(game) = LastGuesserText(game.memory)
    /\ game.memory = <<>> => get_latest_question(game) = None
    /\ (pc \in {"game_loop", "simulate_turn"} /\ turns = 0) =>
           get_latest_question(game) = init_message
    /\ (Running /\ turns > 0) => get_latest_question(game) = response
    /\ (pc = "simulate_turn" /\ turns > 0) => latest_question = response

C10_Witness ==
    /\ pc = "simulate_turn"
    /\ turns = 2
    /\ latest_question = RHooraygun

\* bulk_test_game has returned its dictionary
BatchCompleted ==
    /\ pc = "done"
    /\ summary.returned

\* the questions used by the first n rounds of rs, added up
RECURSIVE UsedUpTo(_, _)
UsedUpTo(rs, n) ==
    IF n = 0 THEN 0 ELSE UsedUpTo(rs, n - 1) + rs[n][3]

\* the rounds of rs with the given outcome
RoundsWith(rs, outcome) ==
    {i \in 1..Len(rs) : rs[i][2] = outcome}

\* C11: when bulk_test_game with num_games >= 1 returns, there is one result
\* per round, success_count is the number of rounds with outcome Success,
\* average_questions times num_games is the sum of the questions used over all
\* rounds, the failed ones (MaxQuestions each) included, and performance_score
\* times num_games is success_count
C11_Aggregates ==
    (BatchCompleted /\ num_games >= 1) =>
        LET rs == summary.detailed_results
        IN  /\ rs = results
            /\ Len(rs) = num_games
            /\ summary.success_count = Cardinality(RoundsWith(rs, "Success"))
            /\ summary.average_questions.num * num_games
                   = UsedUpTo(rs, Len(rs)) * summary.average_questions.den
            /\ UsedUpTo(rs, Len(rs))
                   >= MaxQuestions * Cardinality(RoundsWith(rs, "Failure"))
                          + Cardinality(RoundsWith(rs, "Success"))
            /\ summary.performance_score.num * num_games
                   = summary.success_count * summary.performance_score.den

C11_Witness ==
    /\ BatchCompleted
    /\ num_games = MaxGames
    /\ RoundsWith(results, "Success") # {}
    /\ RoundsWith(results, "Failure") # {}

\* the first response of the round that has just returned
FirstResponse ==
    ai_messages(game.memory)[2].content

\* every round of the batch was won with its first question
AllWonAtOnce ==
    \A i \in 1..Len(results) : results[i][2] = "Success" /\ results[i][3] = 1

\* C12: a round whose first response begins with the token returns Success
\* with 1 question after a single call of process_game_turn on the input "Yes"
\* and without a call of the responder; a batch of num_games >= 1 such rounds
\* returns success_count = num_games, average_questions = 1 and
\* performance_score = 1
C12_ImmediateWins ==
    /\ (RoundReturned /\ HasHoorayPrefix(FirstResponse)) =>
           /\ results[Len(results)] = <<concept, "Success", 1>>
           /\ turns = 1
           /\ user_input = Yes
           /\ latest_question = None
           /\ Len(ai_messages(game.memory)) = 2
    /\ pc = "simulate_answer" => ~HasHoorayPrefix(response)
    /\ (BatchCompleted /\ num_games >= 1 /\ AllWonAtOnce) =>
           /\ summary.success_count = num_games
           /\ summary.average_questions.num = summary.average_questions.den
           /\ summary.performance_score.num = summary.performance_score.den

C12_Witness ==
    /\ BatchCompleted
    /\ num_games = MaxGames
    /\ AllWonAtOnce
    /\ HasHoorayPrefix(FirstResponse)
    /\ summary.success_count = MaxGames

\* bulk_test_game was called with no concept and at least one round to run
EmptyConceptsBatch ==
    /\ concepts = <<>>
    /\ num_games >= 1

C14_NoSummaryBelowOne ==
    num_games < 1 => ~summary.returned

\* a completion failed while bulk_test_game was running
BatchFailed ==
    /\ num_games >= 1
    /\ error = "CompletionError"

\* C15: a completion that fails in a round of bulk_test_game, the guesser's
\* or the responder's, ends the program with that error: the round gives no
\* result, no further round and no other step follows, and no summary is
\* returned; a response the batch holds is one the guesser's model completed
C15_BatchFailsFast ==
    /\ BatchFailed =>
           /\ pc = "raised"
           /\ Len(results) < num_games
           /\ ~summary.returned
           /\ ~ENABLED Next
    /\ (num_games >= 1 /\ response # None) => response \in Responses
    /\ BatchCompleted => error = "None"

C15_Witness ==
    /\ BatchFailed
    /\ num_games = MaxGames
    /\ Len(results) = 1
    /\ latest_question = response
    /\ response # None

\* game_loop was ended by the error of a completion
GameLoopFailed ==
    /\ num_games < 1
    /\ pc = "raised"
    /\ error = "CompletionError"

\* the Streamlit script has shown the error of a completion: the session
\* state is as the failed run found it and the next chat input is taken
StreamlitSurvivesFailure ==
    (pc = "streamlit" /\ page.shown = "error") =>
        /\ page.count = session_state["question_count"]
        /\ session_state = StreamlitChatApp(session_state)
        /\ turns < MaxQuestions + MaxExtraTurns => ENABLED StreamlitChat

\* C16: in game_loop and in the Streamlit script a completion that fails is
\* shown as an error and the session goes on: the next input is taken, with
\* the question count as it was
C16_InteractiveSurvivesFailure ==
    /\ ~GameLoopFailed
    /\ StreamlitSurvivesFailure

\* C17: a session takes no turn after a response that begins with the token
\* and none after its MaxQuestions-th response: every such response is the
\* last ai turn of its transcript
C17_NoTurnAfterTerminal ==
    LET ai == ai_messages(Transcript)
    IN  /\ \A k \in 2..(Len(ai) - 1) : ~HasHoorayPrefix(ai[k].content)
        /\ Len(ai) - 1 <= MaxQuestions

\* the number of responses the session in use has received
Received ==
    Len(ai_messages(Transcript)) - 1

\* the last response of the session in use begins with the token
LastIsToken ==
    /\ Received >= 1
    /\ HasHoorayPrefix(LastResponse)

\* game_loop has received the response to its last input
InGameLoop ==
    /\ num_games < 1
    /\ pc \in {"game_loop", "done", "raised"}
    /\ turns >= 1
    /\ Received = turns

\* game_loop announces the loss exactly after MaxQuestions responses without
\* the token, announces a win for the token, and goes on otherwise
GameLoopBoundary ==
    InGameLoop =>
        /\ (pc = "done" /\ printed = "lost") <=> (Received = MaxQuestions /\ ~LastIsToken)
        /\ (pc = "done" /\ printed = "win") <=> LastIsToken
        /\ (Received < MaxQuestions /\ ~LastIsToken) => pc = "game_loop"

\* simulate_game returns Failure exactly after MaxQuestions responses that do
\* not end the game, and goes on otherwise
SimulateBoundary ==
    /\ RoundReturned =>
           LET last == results[Len(results)]
               over == HasHoorayPrefix(LastResponse) \/ OccursIn(last[1], LastResponse)
           IN  /\ last[2] = "Failure" <=> (Received = MaxQuestions /\ ~over)
               /\ last[2] = "Success" <=> over
    /\ pc \in {"simulate_turn", "simulate_answer"} => Received <= MaxQuestions

\* the Streamlit session has not taken a turn beyond the end of its round
WithinRound ==
    /\ pc = "streamlit"
    /\ Received <= MaxQuestions
    /\ \A k \in 2..Received : ~HasHoorayPrefix(ai_messages(Transcript)[k].content)

\* the Streamlit script announces the loss exactly after MaxQuestions
\* responses without the token, and a win for the token
StreamlitBoundary ==
    (WithinRound /\ page.count > 0 /\ page.shown # "error") =>
        /\ page.shown = "lost" <=> (Received = MaxQuestions /\ ~LastIsToken)
        /\ page.shown = "win" <=> LastIsToken

\* C18: game_loop, simulate_game and the Streamlit script grant MaxQuestions
\* responses each: a terminal response on the last of them is a win, and the
\* loss is declared right after the MaxQuestions-th response that is not
\* terminal, neither earlier nor later
C18_SameBoundary ==
    /\ GameLoopBoundary
    /\ SimulateBoundary
    /\ StreamlitBoundary

\* text is the word "yes" in any letter case, with nothing but white space
\* around it
ExactlyYes(text) ==
    \E k \in 0..Len(text) :
        /\ k + Len(yes) <= Len(text)
        /\ \A i \in 1..k : text[i] \in Whitespace
        /\ \A j \in 1..Len(yes) : lower_char(text[k + j]) = yes[j]
        /\ \A i \in (k + Len(yes) + 1)..Len(text) : text[i] \in Whitespace

\* the human turns of the transcript of simulate_game
SubmittedInputs ==
    {game.memory[i].content :
        i \in {j \in 1..Len(game.memory) : game.memory[j].type = "human"}}

\* C19: every input simulate_game submits is "Yes" or "No"; ai_user_response
\* answers "Yes" exactly for an output that is "yes" once trimmed and
\* lower-cased, and "No" for every other output, "Yes.", "yes it is" and the
\* empty output among them
C19_YesOrNo ==
    /\ num_games >= 1 =>
           /\ SubmittedInputs \subseteq {Yes, No}
           /\ pc \in {"simulate_turn", "simulate_answer"} => user_input \in {Yes, No}
    /\ \A a \in RawAnswers :
           /\ ai_user_response(Completed(a)).raised = "None"
           /\ ai_user_response(Completed(a)).answer = IF ExactlyYes(a) THEN Yes ELSE No
    /\ ai_user_response(Completed(<<"Y","e","s",".">>)).answer = No
    /\ ai_user_response(Completed(<<"y","e","s"," ","i","t"," ","i","s">>)).answer = No
    /\ ai_user_response(Completed(<<>>)).answer = No
    /\ ai_user_response(Completed(<<" ","Y","E","S","\n">>)).answer = Yes

C19_Witness ==
    /\ pc = "simulate_turn"
    /\ turns = 2
    /\ SubmittedInputs = {Yes, No}
    /\ user_input = Yes

\* simulate_game has been called and has not called process_game_turn yet
RoundOpened ==
    /\ pc = "simulate_turn"
    /\ turns = 0

\* C20: every round of simulate_game, whatever its concept and whatever the
\* rounds before it did, submits "Yes" as its first input, and the responder
\* has not been asked when that first input is submitted
C20_FirstInputIsYes ==
    /\ RoundOpened =>
           /\ user_input = Yes
           /\ latest_question = None
    /\ (num_games >= 1 /\ Len(game.memory) >= 2) =>
           game.memory[2] = HumanMessage(Yes)
    /\ pc = "simulate_answer" => turns >= 1

C20_Witness ==
    /\ RoundOpened
    /\ Len(results) = 1
    /\ results[1][2] = "Failure"
    /\ concept = car
    /\ user_input = Yes

\* the game as initialize_game builds it, with the opening message seeded
FreshGame ==
    [TwentyQuestionsGame("llm", <<>>) EXCEPT
        !.memory = add_ai_message(@, init_message)]

\* C21: every round of a batch, the later ones on the session the earlier
\* ones used, opens on the game a first round opens on: the transcript is the
\* opening message alone; the question count a round returns is the number
\* of responses of that round, whatever the rounds before it used
C21_RoundsStartFresh ==
    /\ RoundOpened =>
           /\ game = FreshGame
           /\ question_count = 0
    /\ (num_games >= 1 /\ game.memory # <<>>) =>
           /\ game.memory[1] = AIMessage(init_message)
           /\ \A i \in 2..Len(game.memory) :
                  game.memory[i] # AIMessage(init_message)
           /\ Received = turns \/ error = "CompletionError"
    /\ RoundReturned => results[Len(results)][3] = Received

C21_Witness ==
    /\ RoundReturned
    /\ Len(results) = 2
    /\ results[1][3] = MaxQuestions
    /\ results[2][3] = 1

\* the opening message is in the transcript of the session in use
Seeded ==
    \E i \in 1..Len(Transcript) : Transcript[i] = AIMessage(init_message)

\* C22: once the opening message has been seeded, it is the first turn of the
\* transcript, also when game_loop or simulate_game starts on a session that
\* was created on a supplied transcript
C22_OpeningStaysFirst ==
    Seeded => Transcript[1] = AIMessage(init_message)

Flags(result) ==
    <<result.game_over, result.question_count>>

\* C24: two calls of process_game_turn on the same game, input and concept
\* whose results carry the same flags were ended, or not, by the same rule:
\* the flags tell a response that begins with the token from one that only
\* contains the concept
C24_SignalsToldApart ==
    (pc = "simulate_turn" /\ loop_continues(question_count)) =>
        \A r1, r2 \in Responses :
            LET p1 == process_game_turn(game, user_input, concept, Completed(r1))
                p2 == process_game_turn(game, user_input, concept, Completed(r2))
            IN  Flags(p1) = Flags(p2) =>
                    /\ token_match(r1) <=> token_match(r2)
                    /\ substring_match(concept, r1) <=> substring_match(concept, r2)

\* C25: in game_loop, where process_game_turn is called with None for the
\* concept, the call returns for every response, with game_over true exactly
\* when the response begins with the token; no call of the program raises
\* AttributeError
C25_NoConceptReturns ==
    /\ error # "AttributeError"
    /\ pc = "game_loop" =>
           \A input \in UserInputs, r \in Responses :
               LET p == process_game_turn(game, input, None, Completed(r))
               IN  /\ p.raised = "None"
                   /\ p.game_over <=> HasHoorayPrefix(r)

\* bulk_test_game, called with num_games >= 1, has not returned or raised yet
InBatch ==
    /\ num_games >= 1
    /\ pc \in {"bulk_test_game", "simulate_turn", "simulate_answer"}

\* the steps a round takes at most: a call of process_game_turn and a call of
\* the responder for each question, the entry and the return
RoundSteps ==
    2 * MaxQuestions + 2

\* how far the batch has come: the rounds returned, then the place in the round
Progress ==
    Len(results) * RoundSteps
        + (IF pc = "simulate_turn" THEN 2 * turns + 1
           ELSE IF pc = "simulate_answer" THEN 2 * turns
           ELSE 0)

\* C26: bulk_test_game with num_games >= 1 comes to an end: while it runs a
\* step is always possible, every step takes it further, and it can be no
\* further than num_games rounds; a round returns after 1 to MaxQuestions
\* calls of process_game_turn, the batch returns with exactly num_games
\* results, and it ends otherwise only by a completion that failed or by the
\* empty concepts list
C26_RoundsTerminate ==
    /\ [](InBatch =>
            /\ ENABLED Next
            /\ Progress <= num_games * RoundSteps
            /\ turns <= MaxQuestions
            /\ RoundReturned => turns \in 1..MaxQuestions)
    /\ []((BatchCompleted /\ num_games >= 1) => Len(results) = num_games)
    /\ [][InBatch =>
            \/ InBatch' /\ Progress' > Progress
            \/ pc' = "done" /\ summary'.returned /\ Len(results) = num_games
            \/ pc' = "raised" /\ error' \in {"CompletionError", "IndexError"}]_vars

C26_Witness ==
    /\ BatchCompleted
    /\ num_games = MaxGames
    /\ \A i \in 1..Len(results) : results[i][2] = "Failure"

\* C27: the call of the responder between two calls of process_game_turn
\* leaves the game as it was, transcript, model and chain, and with it the
\* question count; all it hands on is the next input, "Yes" or "No"
C27_ResponderLeavesSession ==
    [][pc = "simulate_answer" =>
          /\ game' = game
          /\ count_questions(game'.memory) = count_questions(game.memory)
          /\ question_count' = question_count
          /\ latest_question' = response
          /\ error' = "None" => user_input' \in {Yes, No}]_vars

C27_Witness ==
    /\ pc = "simulate_turn"
    /\ turns = 1
    /\ concept = car
    /\ latest_question = RIsItAnApple
    /\ user_input = No
    /\ Len(game.memory) = 4

\* C28: a call of process_game_turn whose completion fails leaves the
\* transcript as it found it: no human turn of a failed call remains, so no
\* transcript ends with a human turn
C28_FailedTurnLeavesTranscript ==
    /\ (pc = "simulate_turn" /\ loop_continues(question_count)) =>
           process_game_turn(game, user_input, concept, Failed).game.memory
               = game.memory
    /\ pc = "game_loop" =>
           \A input \in UserInputs :
               process_game_turn(game, input, None, Failed).game.memory = game.memory
    /\ game.memory # <<>> => game.memory[Len(game.memory)].type = "ai"

\* C29: whenever the Streamlit script announces a win, the number of
\* questions it shows is the number of ai turns of the transcript minus 1
C29_WinShowsResponses ==
    (pc = "streamlit" /\ page.shown = "win") =>
        page.count = count_questions(Transcript)

\* the session state a first visit of the Streamlit script leaves
FirstVisit ==
    StreamlitChatApp(<<>>)

\* C30: from any state of a Streamlit session, mid-game, won or lost, restart
\* followed by the next run of the script gives the session state of a first
\* visit: the transcript is the opening message alone and the counter is 1
C30_RestartIsFirstVisit ==
    /\ FirstVisit = [langchain_messages |-> <<AIMessage(init_message)>>,
                     question_count |-> 1]
    /\ pc = "streamlit" =>
           /\ StreamlitChatApp(restart(session_state)) = FirstVisit
           /\ turns = 0 => session_state = FirstVisit

C30_Witness ==
    /\ pc = "streamlit"
    /\ page.shown = "lost"
    /\ page.button
    /\ session_state["question_count"] > MaxQuestions
    /\ StreamlitChatApp(restart(session_state)) = FirstVisit

\* the concepts of the list handed to bulk_test_game
ConceptsGiven ==
    {concepts[k] : k \in 1..Len(concepts)}

\* rs holds rounds as simulate_game returns them: a concept of the list, and
\* 1 to MaxQuestions questions, MaxQuestions of them when the round failed
WellFormedResults(rs) ==
    \A i \in 1..Len(rs) :
        /\ rs[i][1] \in ConceptsGiven
        /\ rs[i][2] \in {"Success", "Failure"}
        /\ rs[i][3] \in 1..MaxQuestions
        /\ rs[i][2] = "Failure" => rs[i][3] = MaxQuestions

\* C31: the results of a batch grow by one entry per round, in the order the
\* rounds return, each with a concept of the list and 1 to MaxQuestions
\* questions (MaxQuestions for a Failure); a batch with num_games >= 1 that
\* returns has num_games such entries, 0 <= success_count <= num_games and
\* 1 <= average_questions <= MaxQuestions
C31_ResultsWellFormed ==
    /\ [](WellFormedResults(results) /\ Len(results) <= IF num_games > 0 THEN num_games ELSE 0)
    /\ []((BatchCompleted /\ num_games >= 1) =>
            /\ summary.detailed_results = results
            /\ Len(summary.detailed_results) = num_games
            /\ summary.success_count \in 0..num_games
            /\ summary.average_questions.den = num_games
            /\ summary.average_questions.num >= summary.average_questions.den
            /\ summary.average_questions.num
                   <= MaxQuestions * summary.average_questions.den)
    /\ [][/\ (pc \in {"simulate_turn", "simulate_answer"} /\ pc' = "bulk_test_game") =>
               \E outcome \in {"Success", "Failure"} :
                   results' = Append(results, <<concept, outcome, turns'>>)
          /\ ~(pc \in {"simulate_turn", "simulate_answer"} /\ pc' = "bulk_test_game") =>
               (results' = results \/ (pc = "start" /\ results' = <<>>))]_vars

C31_Witness ==
    /\ BatchCompleted
    /\ num_games = MaxGames
    /\ summary.detailed_results[1] = <<car, "Success", 2>>
    /\ summary.detailed_results[2] = <<apple, "Failure", MaxQuestions>>

\* C32 as stated: the response "I think it's a hooraygun" sets the token test
C32_HooraygunMatches ==
    response = RHooraygun => token_match(response)

\* the text of RHooraygun from its word "hooraygun" on
HooraygunWord ==
    LET at == CHOOSE k \in 1..Len(RHooraygun) :
                  /\ k + Len(hooray) - 1 <= Len(RHooraygun)
                  /\ SubSeq(RHooraygun, k, k + Len(hooray) - 1) = hooray
    IN  SubSeq(RHooraygun, at, Len(RHooraygun))

\* C32 as amended: "I think it's a hooraygun" holds the token inside a later
\* word and does not set the token test: the round goes on after it and the
\* Streamlit script announces no win; the token test is set by the token at
\* the head of the text, also when a longer word begins with it, as in
\* "hooraygun"
C32_HooraygunDoesNotMatch ==
    /\ contains(hooray, lower(RHooraygun))
    /\ response = RHooraygun =>
           /\ ~token_match(response)
           /\ Running => ~game_over
    /\ (pc = "streamlit" /\ page.count > 0 /\ page.shown # "error"
            /\ LastResponse = RHooraygun) => page.shown # "win"
    /\ token_match(HooraygunWord)
    /\ \A r \in Responses : token_match(r) <=> HasHoorayPrefix(r)

C32_Witness ==
    /\ pc = "simulate_answer"
    /\ turns = 1
    /\ response = RHooraygun
    /\ ~game_over

====
